---------------------------- MODULE Spec2Model ----------------------------
(***************************************************************************)
(* A model of api/main.py: the "QR -> S3 Generator" service.               *)
(*                                                                         *)
(* Text is modelled as a sequence of one-character strings, so that        *)
(* startswith, strip, replace, urlparse and the SHA-1 digest are computed  *)
(* character by character, as the code and the libraries it calls compute  *)
(* them.  The S3 bucket is a function from keys to stored objects.  Each   *)
(* HTTP request is a small process whose steps are the handler's local     *)
(* computation up to the next call of the S3 client, and then that call.   *)
(***************************************************************************)
EXTENDS Integers, Sequences, FiniteSets, TLC

VARIABLES
    env,    \* the process environment read at import (main.py 32-35)
    store,  \* the bucket: key -> stored object
    req,    \* the requests: slot -> request record
    kurl,   \* the argument of a stand-alone call of safe_key_from_url
    kres    \* its result; raises = "pending" before the call

vars == <<env, store, req, kurl, kres>>

(***************************************************************************)
(* Characters and strings                                                  *)
(***************************************************************************)

\* The printable ASCII characters, in code order from 32 (space) to 126
\* (code 96 is written out by name).
AsciiPrintable ==
    <<" ", "!", "\"", "#", "$", "%", "&", "'", "(", ")", "*", "+", ",", "-",
      ".", "/", "0", "1", "2", "3", "4", "5", "6", "7", "8", "9", ":", ";",
      "<", "=", ">", "?", "@", "A", "B", "C", "D", "E", "F", "G", "H", "I",
      "J", "K", "L", "M", "N", "O", "P", "Q", "R", "S", "T", "U", "V", "W",
      "X", "Y", "Z", "[", "\\", "]", "^", "_", "(backtick)", "a", "b", "c", "d", "e",
      "f", "g", "h", "i", "j", "k", "l", "m", "n", "o", "p", "q", "r", "s",
      "t", "u", "v", "w", "x", "y", "z", "{", "|", "}", "~">>

\* ord(c): the code of a character (its one UTF-8 byte, for ASCII).
Ord(c) == 31 + (CHOOSE i \in 1..Len(AsciiPrintable) : AsciiPrintable[i] = c)

\* str.encode("utf-8") on ASCII text: one byte per character.
EncodeUtf8(s) == [i \in 1..Len(s) |-> Ord(s[i])]

\* str.lower() on one character.
LowerChar(c) == IF Ord(c) \in 65..90 THEN AsciiPrintable[Ord(c) + 1] ELSE c

Lower(s) == [i \in 1..Len(s) |-> LowerChar(s[i])]

\* s[i:] and s[:i] with 1-based positions: From(s, i) keeps s[i], s[i+1], ...
From(s, i) == SubSeq(s, i, Len(s))

Upto(s, i) == SubSeq(s, 1, i)

\* The position of the first c at or after position from; 0 when there is
\* none (str.find's -1).
Find(s, c, from) ==
    LET hits == {i \in from..Len(s) : s[i] = c}
    IN IF hits = {} THEN 0 ELSE CHOOSE i \in hits : \A j \in hits : i <= j

\* The position of the last c; 0 when there is none (str.rfind's -1).
RFind(s, c) ==
    LET hits == {i \in 1..Len(s) : s[i] = c}
    IN IF hits = {} THEN 0 ELSE CHOOSE i \in hits : \A j \in hits : i >= j

Contains(s, c) == \E i \in 1..Len(s) : s[i] = c

\* str.startswith
StartsWith(s, p) == Len(s) >= Len(p) /\ \A i \in 1..Len(p) : s[i] = p[i]

\* How many characters at the start (the end) of s are all in the set cs.
LeadingIn(s, cs) == Cardinality({i \in 1..Len(s) : \A j \in 1..i : s[j] \in cs})

TrailingIn(s, cs) ==
    Cardinality({i \in 1..Len(s) : \A j \in i..Len(s) : s[j] \in cs})

\* str.lstrip(chars) and str.strip(chars)
LStrip(s, cs) == From(s, LeadingIn(s, cs) + 1)

Strip(s, cs) ==
    LET t == LStrip(s, cs)
    IN Upto(t, Len(t) - TrailingIn(t, cs))

\* str.replace(old, new) for single characters
Replace(s, old, new) == [i \in 1..Len(s) |-> IF s[i] = old THEN new ELSE s[i]]

(***************************************************************************)
(* hashlib.sha1: SHA-1 over 32-bit words kept as <<high, low>> halves of   *)
(* 16 bits, so that no intermediate value leaves the 32-bit integers.      *)
(***************************************************************************)

RECURSIVE AndBits(_, _)
AndBits(a, b) ==
    IF a = 0 \/ b = 0 THEN 0
    ELSE (a % 2) * (b % 2) + 2 * AndBits(a \div 2, b \div 2)

\* The bitwise AND of two bytes, tabulated: entry a * 256 + b + 1.
AndTable ==
    [k \in 1..65536 |-> AndBits((k - 1) \div 256, (k - 1) % 256)] \o <<>>

And16(a, b) ==
    AndTable[(a \div 256) * 256 + (b \div 256) + 1] * 256
        + AndTable[(a % 256) * 256 + (b % 256) + 1]

Xor16(a, b) == a + b - 2 * And16(a, b)

WAnd(a, b) == <<And16(a[1], b[1]), And16(a[2], b[2])>>

WXor(a, b) == <<Xor16(a[1], b[1]), Xor16(a[2], b[2])>>

WNot(a) == <<65535 - a[1], 65535 - a[2]>>

WOr(a, b) == WXor(WXor(a, b), WAnd(a, b))

\* Rotation to the left by n < 16 bits, p = 2^n.
RotlBy(a, p) ==
    <<((a[1] * p) % 65536) + (a[2] \div (65536 \div p)),
      ((a[2] * p) % 65536) + (a[1] \div (65536 \div p))>>

Rotl1(a) == RotlBy(a, 2)

Rotl5(a) == RotlBy(a, 32)

\* 30 = 16 + 14: swap the halves, then rotate by 14.
Rotl30(a) == RotlBy(<<a[2], a[1]>>, 16384)

\* Addition modulo 2^32.
WAdd5(a, b, c, d, e) ==
    LET lo == a[2] + b[2] + c[2] + d[2] + e[2]
        hi == a[1] + b[1] + c[1] + d[1] + e[1] + (lo \div 65536)
    IN <<hi % 65536, lo % 65536>>

WAdd(a, b) == WAdd5(a, b, <<0, 0>>, <<0, 0>>, <<0, 0>>)

\* The padded message: the bytes, 0x80, zeros up to 56 modulo 64, and the
\* bit length as 8 big-endian bytes (the lengths here fit in 4).
Sha1Pad(bytes) ==
    LET n == Len(bytes)
        z == (119 - (n % 64)) % 64
        bits == n * 8
        lenb == <<0, 0, 0, 0, (bits \div 16777216) % 256, (bits \div 65536) % 256,
                  (bits \div 256) % 256, bits % 256>>
    IN bytes \o <<128>> \o [i \in 1..z |-> 0] \o lenb

\* Word t (0..15) of block blk (0..) of the padded message.
Sha1Word(p, blk, t) ==
    LET o == blk * 64 + t * 4
    IN <<p[o + 1] * 256 + p[o + 2], p[o + 3] * 256 + p[o + 4]>>

\* The message schedule: 16 words extended to 80.  The loops of the
\* algorithm are unfolded by halving the range, and each intermediate value
\* is computed before the next half starts, so that evaluation stays shallow.
RECURSIVE Sha1Schedule(_, _, _)
Sha1Schedule(w, lo, hi) ==
    IF lo = hi
    THEN Append(w, Rotl1(WXor(WXor(w[lo - 3], w[lo - 8]), WXor(w[lo - 14], w[lo - 16]))))
    ELSE LET mid == (lo + hi) \div 2
             w1 == Sha1Schedule(w, lo, mid)
         IN IF Len(w1) = mid THEN Sha1Schedule(w1, mid + 1, hi) ELSE w1

Sha1F(t, b, c, d) ==
    IF t < 20 THEN WOr(WAnd(b, c), WAnd(WNot(b), d))
    ELSE IF t < 40 THEN WXor(WXor(b, c), d)
    ELSE IF t < 60 THEN WOr(WOr(WAnd(b, c), WAnd(b, d)), WAnd(c, d))
    ELSE WXor(WXor(b, c), d)

\* 0x5A827999, 0x6ED9EBA1, 0x8F1BBCDC, 0xCA62C1D6
Sha1K(t) ==
    IF t < 20 THEN <<23170, 31129>>
    ELSE IF t < 40 THEN <<28377, 60321>>
    ELSE IF t < 60 THEN <<36635, 48348>>
    ELSE <<51810, 49622>>

\* Rounds lo..hi (0..79) on the working state s = <<a, b, c, d, e>>.
RECURSIVE Sha1Rounds(_, _, _, _)
Sha1Rounds(w, s, lo, hi) ==
    IF lo = hi
    THEN <<WAdd5(Rotl5(s[1]), Sha1F(lo, s[2], s[3], s[4]), s[5], Sha1K(lo), w[lo + 1]),
           s[1], Rotl30(s[2]), s[3], s[4]>>
    ELSE LET mid == (lo + hi) \div 2
             s1 == Sha1Rounds(w, s, lo, mid)
         IN IF Len(s1) = 5 THEN Sha1Rounds(w, s1, mid + 1, hi) ELSE s1

\* Blocks lo..hi (0..) of the padded message p on the hash state h.
RECURSIVE Sha1Blocks(_, _, _, _)
Sha1Blocks(p, h, lo, hi) ==
    IF lo = hi
    THEN LET w == Sha1Schedule([t \in 1..16 |-> Sha1Word(p, lo, t - 1)] \o <<>>, 17, 80)
             s == Sha1Rounds(w, h, 0, 79)
         IN [i \in 1..5 |-> WAdd(h[i], s[i])] \o <<>>
    ELSE LET mid == (lo + hi) \div 2
             h1 == Sha1Blocks(p, h, lo, mid)
         IN IF Len(h1) = 5 THEN Sha1Blocks(p, h1, mid + 1, hi) ELSE h1

\* 0x67452301, 0xEFCDAB89, 0x98BADCFE, 0x10325476, 0xC3D2E1F0
Sha1Init ==
    <<<<26437, 8961>>, <<61389, 43913>>, <<39098, 56574>>, <<4146, 21622>>,
      <<50130, 57840>>>>

\* hashlib.sha1(bytes).digest() as five 32-bit words.
Sha1(bytes) ==
    LET p == Sha1Pad(bytes) \o <<>>
    IN Sha1Blocks(p, Sha1Init, 0, (Len(p) \div 64) - 1)

HexChars ==
    <<"0", "1", "2", "3", "4", "5", "6", "7", "8", "9", "a", "b", "c", "d", "e", "f">>

\* Four lowercase hexadecimal digits of a 16-bit value.
Hex16(v) ==
    <<HexChars[(v \div 4096) + 1], HexChars[((v \div 256) % 16) + 1],
      HexChars[((v \div 16) % 16) + 1], HexChars[(v % 16) + 1]>>

\* .hexdigest(): 40 hexadecimal characters.
HexDigest(h) ==
    Hex16(h[1][1]) \o Hex16(h[1][2]) \o Hex16(h[2][1]) \o Hex16(h[2][2])
        \o Hex16(h[3][1]) \o Hex16(h[3][2]) \o Hex16(h[4][1]) \o Hex16(h[4][2])
        \o Hex16(h[5][1]) \o Hex16(h[5][2])

(***************************************************************************)
(* urllib.parse.urlparse, as safe_key_from_url calls it (one argument).    *)
(***************************************************************************)

Letters == {AsciiPrintable[i] : i \in (34..59) \cup (66..91)}

Digits == {AsciiPrintable[i] : i \in 17..26}

\* urllib.parse.scheme_chars
SchemeChars == Letters \cup Digits \cup {"+", "-", "."}

\* urllib.parse.uses_params
UsesParams ==
    { <<>>, <<"f", "t", "p">>, <<"h", "d", "l">>,
      <<"p", "r", "o", "s", "p", "e", "r", "o">>, <<"h", "t", "t", "p">>,
      <<"i", "m", "a", "p">>, <<"h", "t", "t", "p", "s">>,
      <<"s", "h", "t", "t", "p">>, <<"r", "t", "s", "p">>,
      <<"r", "t", "s", "p", "s">>, <<"r", "t", "s", "p", "u">>,
      <<"s", "i", "p">>, <<"s", "i", "p", "s">>, <<"m", "m", "s">>,
      <<"s", "f", "t", "p">>, <<"t", "e", "l">> }

\* The scheme of url, when url starts with one: the position of its colon,
\* else 0.
SchemeEnd(url) ==
    LET i == Find(url, ":", 1)
    IN IF i > 1 /\ url[1] \in Letters /\ \A k \in 1..(i - 1) : url[k] \in SchemeChars
       THEN i ELSE 0

\* _splitnetloc(url, 2): the position of the first of "/", "?", "#" after
\* the two slashes, or one past the end.
NetlocEnd(url) ==
    LET ends == {i \in 3..Len(url) : url[i] \in {"/", "?", "#"}}
    IN IF ends = {} THEN Len(url) + 1
       ELSE CHOOSE i \in ends : \A j \in ends : i <= j

\* _splitparams(url): the path without the parameters of its last segment.
SplitParamsPath(url) ==
    LET i == IF Contains(url, "/") THEN Find(url, ";", RFind(url, "/"))
             ELSE Find(url, ";", 1)
    IN IF i = 0 THEN url ELSE Upto(url, i - 1)

\* urlparse(url): the scheme, netloc and path of the result, and the
\* exception raised instead, if any ("" for none), in the steps of urlsplit
\* and urlparse.  Leading spaces are stripped; a netloc with one square
\* bracket and not the other raises ValueError("Invalid IPv6 URL").  Text
\* with tabs, line breaks or other control characters, non-ASCII text and a
\* netloc with both brackets are outside the inputs modelled.

\* The last step: the parameters of the last path segment are split off for
\* the schemes that use them, and the bracket check of the netloc decides
\* between the result and the exception.
UrlParseResult(scheme, netloc, path) ==
    IF Contains(netloc, "[") # Contains(netloc, "]")
    THEN [raises |-> "ValueError", scheme |-> scheme, netloc |-> <<>>, path |-> <<>>]
    ELSE [raises |-> "", scheme |-> scheme, netloc |-> netloc,
          path |-> IF scheme \in UsesParams /\ Contains(path, ";")
                   THEN SplitParamsPath(path) ELSE path]

\* url.split('?', 1)
UrlSplitQuery(scheme, netloc, url) ==
    UrlParseResult(scheme, netloc,
                   IF Contains(url, "?") THEN Upto(url, Find(url, "?", 1) - 1) ELSE url)

\* url.split('#', 1)
UrlSplitFragment(scheme, netloc, url) ==
    UrlSplitQuery(scheme, netloc,
                  IF Contains(url, "#") THEN Upto(url, Find(url, "#", 1) - 1) ELSE url)

\* if url[:2] == '//': netloc, url = _splitnetloc(url, 2)
UrlSplitNetloc(scheme, url) ==
    IF StartsWith(url, <<"/", "/">>)
    THEN UrlSplitFragment(scheme, SubSeq(url, 3, NetlocEnd(url) - 1),
                          From(url, NetlocEnd(url)))
    ELSE UrlSplitFragment(scheme, <<>>, url)

\* scheme, url = url[:i].lower(), url[i+1:]
UrlSplitScheme(url, se) ==
    IF se > 0 THEN UrlSplitNetloc(Lower(Upto(url, se - 1)), From(url, se + 1))
    ELSE UrlSplitNetloc(<<>>, url)

UrlAfterStrip(url) == UrlSplitScheme(url, SchemeEnd(url))

urlparse(url) == UrlAfterStrip(LStrip(url, {" "}))

(***************************************************************************)
(* Helpers (main.py 49-61)                                                 *)
(***************************************************************************)

DigestLen == 16

KeyPrefix == <<"q", "r", "_", "c", "o", "d", "e", "s", "/">>

KeySuffix == <<".", "p", "n", "g">>

RootSlug == <<"r", "o", "o", "t">>

\* host_path of safe_key_from_url (lines 57-59), from the parsed parts.
OrRoot(hp) == IF hp = <<>> THEN RootSlug ELSE hp

\* A faulty variant of host_path: the replace("/", "_") is left out.
host_path_unflattened(parsed) == OrRoot(Strip(parsed.netloc \o parsed.path, {"/"}))

host_path(parsed) == OrRoot(Replace(Strip(parsed.netloc \o parsed.path, {"/"}), "/", "_"))

\* A faulty variant of digest: the digest of no data, whatever the URL.
digest_of_nothing(url) == Upto(HexDigest(Sha1(<<>>)), DigestLen)

\* hashlib.sha1(url.encode("utf-8")).hexdigest()[:16]
digest(url) == Upto(HexDigest(Sha1(EncodeUtf8(url))), DigestLen)

\* safe_key_from_url(url): the key, or the exception urlparse raised.
KeyFromParsed(parsed, url) ==
    IF parsed.raises # "" THEN [raises |-> parsed.raises, key |-> <<>>]
    ELSE [raises |-> "",
          key |-> KeyPrefix \o host_path(parsed) \o <<"_">> \o digest(url) \o KeySuffix]

safe_key_from_url(url) == KeyFromParsed(urlparse(url), url)

\* No call of safe_key_from_url made yet.
KeyPending == [raises |-> "pending", key |-> <<>>]

(***************************************************************************)
(* Optional values: None is the empty sequence, a value v is <<v>>.        *)
(***************************************************************************)

None == <<>>

Some(v) == <<v>>

\* A faulty variant of Truthy: "x is not None", which takes "" for a value.
TruthyNotNone(o) == o # None

\* bool(x) of an optional configuration string
Truthy(o) == o # None /\ o[1] # ""

\* Python's "a or b"
OrElse(a, b) == IF Truthy(a) THEN a ELSE b

(***************************************************************************)
(* The URLs requests carry, by name; UrlText gives the text of each.       *)
(***************************************************************************)

\* The byte capacity of the largest symbol (version 40) at error
\* correction L; QRCode.make(fit=True) raises DataOverflowError beyond it.
\* Text with no digits and no capitals is encoded in byte mode.
QrMaxBytesL == 2953

LongTail == [i \in 1..(QrMaxBytesL + 1 - 9) |-> "a"] \o <<>>

UrlNames == {"EMPTY", "FTP", "A", "B", "A_SLASH", "BRACKET", "LONG"}

UrlTextOf(n) ==
    CASE n = "EMPTY" -> <<>>
      [] n = "FTP" -> <<"f", "t", "p", ":", "/", "/", "x", ".", "c", "o", "m">>
      [] n = "A" -> <<"h", "t", "t", "p", "s", ":", "/", "/", "a", ".", "c", "o", "m">>
      [] n = "B" -> <<"h", "t", "t", "p", "s", ":", "/", "/", "b", ".", "c", "o", "m">>
      [] n = "A_SLASH" ->
            <<"h", "t", "t", "p", "s", ":", "/", "/", "a", ".", "c", "o", "m", "/">>
      [] n = "BRACKET" -> <<"h", "t", "t", "p", ":", "/", "/", "[">>
      [] n = "LONG" -> <<"h", "t", "t", "p", ":", "/", "/", "a", "/">> \o LongTail

UrlText == [n \in UrlNames |-> UrlTextOf(n)] @@ <<>>

\* bool(s) of an optional URL
TruthyUrl(o) == o # None /\ UrlText[o[1]] # <<>>

(***************************************************************************)
(* Configuration (main.py 32-35)                                           *)
(***************************************************************************)

\* os.getenv(name, default) in the environment e
getenv(e, name, default) == IF e[name] = None THEN default ELSE e[name]

\* The four module-level settings, as computed at import from e.
load_config(e) ==
    [AWS_REGION |-> getenv(e, "AWS_REGION", Some("us-east-1")),
     AWS_BUCKET |-> getenv(e, "AWS_BUCKET_NAME", None),
     AWS_KEY |-> OrElse(getenv(e, "AWS_ACCESS_KEY", None),
                        getenv(e, "AWS_ACCESS_KEY_ID", None)),
     AWS_SECRET |-> OrElse(getenv(e, "AWS_SECRET_KEY", None),
                           getenv(e, "AWS_SECRET_ACCESS_KEY", None))]

AWS_REGION == load_config(env).AWS_REGION

AWS_BUCKET == load_config(env).AWS_BUCKET

AWS_KEY == load_config(env).AWS_KEY

AWS_SECRET == load_config(env).AWS_SECRET

\* region_aware_public_url(bucket, key, region): the parts of the f-string.
region_aware_public_url(bucket, key, region) ==
    IF region = "us-east-1"
    THEN <<"https://", bucket, ".s3.amazonaws.com/", key>>
    ELSE <<"https://", bucket, ".s3.", region, ".amazonaws.com/", key>>

(***************************************************************************)
(* The libraries, as the handlers use them                                 *)
(***************************************************************************)

\* QRCode(version=1, ERROR_CORRECT_L, box_size=10, border=4), add_data,
\* make(fit=True), make_image(black on white), save as PNG: the bytes, or
\* the exception raised when the text does not fit any symbol.
qr_png(name) ==
    IF Len(UrlText[name]) > QrMaxBytesL
    THEN [raises |-> "DataOverflowError", body |-> <<>>]
    ELSE [raises |-> "", body |-> <<"PNG qr L box=10 border=4 black/white", name>>]

\* What a call of the S3 client can end in: success, an error response of
\* the service (botocore.exceptions.ClientError), or a failure before any
\* response (a BotoCoreError such as EndpointConnectionError or
\* NoCredentialsError, which is not a ClientError).
S3Ok == [class |-> "", msg |-> ""]

S3ClientError ==
    [class |-> "ClientError", msg |-> "An error occurred (AccessDenied)"]

S3TransportError ==
    [class |-> "EndpointConnectionError", msg |-> "Could not connect to the endpoint URL"]

S3Outcomes == {S3Ok, S3ClientError, S3TransportError}

\* A faulty variant of put_object: every write makes a new object, named
\* by the key and a version letter, and none replaces an older one.
put_object_versioned(st, key, body, ctype, cache) ==
    ((key \o <<"#", HexChars[Cardinality(DOMAIN st) + 1]>>)
        :> [Body |-> body, ContentType |-> ctype, CacheControl |-> cache]) @@ st

\* s3.put_object(Bucket, Key, Body, ContentType, CacheControl): no ACL.
put_object(st, key, body, ctype, cache) ==
    (key :> [Body |-> body, ContentType |-> ctype, CacheControl |-> cache]) @@ st

\* s3.generate_presigned_url("get_object", Params, ExpiresIn) under
\* Config(signature_version="s3v4", addressing_style "virtual").
generate_presigned_url(bucket, key, ttl) ==
    [op |-> "get_object", Bucket |-> bucket, Key |-> key, ExpiresIn |-> ttl,
     signature |-> "s3v4", addressing |-> "virtual"]

(***************************************************************************)
(* Requests and responses                                                  *)
(***************************************************************************)

MaxReqs == 2

Reqs == 1..MaxReqs

NoResp == [status |-> 0, detail |-> <<>>, uncaught |-> "", body |-> <<>>]

\* raise HTTPException(status_code, detail)
HTTPException(status, detail) ==
    [status |-> status, detail |-> detail, uncaught |-> "", body |-> <<>>]

\* An exception that leaves the handler: the framework answers 500 with the
\* fixed text and none of the exception's message.
Uncaught(class) ==
    [status |-> 500, detail |-> <<"Internal Server Error">>, uncaught |-> class,
     body |-> <<>>]

Returned(body) == [status |-> 200, detail |-> <<>>, uncaught |-> "", body |-> body]

Idle ==
    [kind |-> "", pc |-> "idle", body |-> None, query |-> None, final_url |-> None,
     calls |-> <<>>, resp |-> NoResp]

\* One call of the S3 client, as logged for the request that made it.
Call(op, key, out) == [op |-> op, key |-> key, ok |-> (out = S3Ok), err |-> out]

\* Requests are taken in slot order.
CanReceive(r) == req[r].pc = "idle" /\ \A q \in Reqs : q < r => req[q].pc # "idle"

Finish(r, resp) == req' = [req EXCEPT ![r].pc = "done", ![r].resp = resp]

(***************************************************************************)
(* POST /generate-qr/ (main.py 112-175)                                    *)
(***************************************************************************)

\* QRRequest(url=u)
QRRequest(u) == [url |-> u]

\* The requests sent: the JSON body (None: no body) and the ?url= parameter.
GenInputs ==
    { [body |-> None, query |-> None],
      [body |-> Some(QRRequest(None)), query |-> Some("EMPTY")],
      [body |-> None, query |-> Some("FTP")],
      [body |-> Some(QRRequest(Some("FTP"))), query |-> Some("A")],
      [body |-> Some(QRRequest(Some("A"))), query |-> Some("B")],
      [body |-> Some(QRRequest(Some("EMPTY"))), query |-> Some("B")],
      [body |-> None, query |-> Some("A")],
      [body |-> Some(QRRequest(Some("A_SLASH"))), query |-> None],
      [body |-> None, query |-> Some("BRACKET")],
      [body |-> Some(QRRequest(Some("LONG"))), query |-> None] }

GenReceive(r, body, query) ==
    /\ CanReceive(r)
    /\ req' = [req EXCEPT ![r] = [Idle EXCEPT !.kind = "generate_qr", !.pc = "validate",
                                              !.body = body, !.query = query]]
    /\ UNCHANGED <<env, store, kurl, kres>>

\* A faulty variant of final_url: the query parameter is preferred.
final_url_query_first(body, query) ==
    IF TruthyUrl(query) THEN query
    ELSE IF body # None THEN body[1].url ELSE None

\* final_url = (req.url if (req and req.url) else url)
final_url(body, query) ==
    IF body # None /\ TruthyUrl(body[1].url) THEN body[1].url ELSE query

HttpPrefix == <<"h", "t", "t", "p", ":", "/", "/">>

HttpsPrefix == <<"h", "t", "t", "p", "s", ":", "/", "/">>

\* final_url.startswith("http://") or final_url.startswith("https://")
HasHttpScheme(text) == StartsWith(text, HttpPrefix) \/ StartsWith(text, HttpsPrefix)

\* A faulty variant of validation_error: the bucket is checked first.
validation_error_bucket_first(fu, bucket) ==
    IF ~Truthy(bucket)
    THEN HTTPException(500, <<"AWS_BUCKET_NAME is not set">>)
    ELSE IF ~TruthyUrl(fu)
    THEN HTTPException(400, <<"Provide 'url' in JSON body or as ?url=...">>)
    ELSE IF ~HasHttpScheme(UrlText[fu[1]])
    THEN HTTPException(400, <<"url must start with http:// or https://">>)
    ELSE NoResp

\* Lines 122-127: the exception the three checks raise for the effective
\* URL fu under the bucket setting, or NoResp when all pass.
validation_error(fu, bucket) ==
    IF ~TruthyUrl(fu)
    THEN HTTPException(400, <<"Provide 'url' in JSON body or as ?url=...">>)
    ELSE IF ~HasHttpScheme(UrlText[fu[1]])
    THEN HTTPException(400, <<"url must start with http:// or https://">>)
    ELSE IF ~Truthy(bucket)
    THEN HTTPException(500, <<"AWS_BUCKET_NAME is not set">>)
    ELSE NoResp

\* Lines 121-127: the effective URL and the three checks.
GenValidate(r) ==
    /\ req[r].kind = "generate_qr" /\ req[r].pc = "validate"
    /\ req' = [req EXCEPT
                 ![r].final_url = final_url(req[r].body, req[r].query),
                 ![r].resp = validation_error(final_url(req[r].body, req[r].query),
                                              AWS_BUCKET),
                 ![r].pc = IF validation_error(final_url(req[r].body, req[r].query),
                                               AWS_BUCKET) = NoResp
                           THEN "build" ELSE "done"]
    /\ UNCHANGED <<env, store, kurl, kres>>

\* key = safe_key_from_url(final_url), for each URL a request can carry.
KeyTable == [n \in UrlNames |-> safe_key_from_url(UrlText[n])] @@ <<>>

\* Lines 129-144, outside the try block: the key, then the image.
GenBuild(r) ==
    /\ req[r].kind = "generate_qr" /\ req[r].pc = "build"
    /\ LET k == KeyTable[req[r].final_url[1]]
           img == qr_png(req[r].final_url[1])
       IN IF k.raises # "" THEN Finish(r, Uncaught(k.raises))
          ELSE IF img.raises # "" THEN Finish(r, Uncaught(img.raises))
          ELSE req' = [req EXCEPT ![r].pc = "put"]
    /\ UNCHANGED <<env, store, kurl, kres>>

\* A faulty variant of GenExcept: no except clause, the exception leaves
\* the handler.
GenExceptNone(e) == Uncaught(e.class)

\* The except clauses of lines 172-175.
GenExcept(e) ==
    IF e.class = "ClientError" THEN HTTPException(500, <<"S3 error: ", e.msg>>)
    ELSE HTTPException(500, <<e.msg>>)

\* Lines 148-154.
GenPut(r) ==
    /\ req[r].kind = "generate_qr" /\ req[r].pc = "put"
    /\ \E out \in S3Outcomes :
         LET key == KeyTable[req[r].final_url[1]].key
             body == qr_png(req[r].final_url[1]).body
         IN IF out = S3Ok
            THEN /\ store' = put_object(store, key, body, "image/png",
                                        "public, max-age=31536000, immutable")
                 /\ req' = [req EXCEPT ![r].pc = "sign",
                              ![r].calls = Append(@, Call("put_object", key, out))]
            ELSE /\ store' = store
                 /\ req' = [req EXCEPT ![r].pc = "done",
                              ![r].calls = Append(@, Call("put_object", key, out)),
                              ![r].resp = GenExcept(out)]
    /\ UNCHANGED <<env, kurl, kres>>

PresignTtl == 900

\* Lines 156-170.
GenSign(r) ==
    /\ req[r].kind = "generate_qr" /\ req[r].pc = "sign"
    /\ \E out \in S3Outcomes :
         LET key == KeyTable[req[r].final_url[1]].key
             public_url == region_aware_public_url(AWS_BUCKET[1], key, AWS_REGION[1])
             presigned_url == generate_presigned_url(AWS_BUCKET[1], key, PresignTtl)
         IN req' = [req EXCEPT ![r].pc = "done",
                      ![r].calls = Append(@, Call("generate_presigned_url", key, out)),
                      ![r].resp =
                          IF out = S3Ok
                          THEN Returned([ok |-> TRUE, bucket |-> AWS_BUCKET[1], key |-> key,
                                         public_url |-> public_url,
                                         presigned_url |-> presigned_url,
                                         source_url |-> req[r].final_url[1]])
                          ELSE GenExcept(out)]
    /\ UNCHANGED <<env, store, kurl, kres>>

(***************************************************************************)
(* GET /s3-diagnose (main.py 81-110)                                       *)
(***************************************************************************)

DiagKey ==
    <<"h", "e", "a", "l", "t", "h", "c", "h", "e", "c", "k", "s", "/", "d", "i", "a",
      "g", "n", "o", "s", "t", "i", "c", ".", "t", "x", "t">>

DiagTtl == 300

\* Lines 86-87.
DiagReceive(r) ==
    /\ CanReceive(r)
    /\ IF ~Truthy(AWS_BUCKET)
       THEN req' = [req EXCEPT ![r] = [Idle EXCEPT !.kind = "s3_diagnose", !.pc = "done",
                        !.resp = HTTPException(500, <<"AWS_BUCKET_NAME is not set">>)]]
       ELSE req' = [req EXCEPT ![r] = [Idle EXCEPT !.kind = "s3_diagnose", !.pc = "head"]]
    /\ UNCHANGED <<env, store, kurl, kres>>

\* The except clause of lines 109-110: only ClientError is caught.
DiagExcept(e) ==
    IF e.class = "ClientError" THEN HTTPException(500, <<"S3 diagnose error: ", e.msg>>)
    ELSE Uncaught(e.class)

\* Line 89.
DiagHead(r) ==
    /\ req[r].kind = "s3_diagnose" /\ req[r].pc = "head"
    /\ \E out \in S3Outcomes :
         req' = [req EXCEPT ![r].pc = IF out = S3Ok THEN "put" ELSE "done",
                   ![r].calls = Append(@, Call("head_bucket", <<>>, out)),
                   ![r].resp = IF out = S3Ok THEN @ ELSE DiagExcept(out)]
    /\ UNCHANGED <<env, store, kurl, kres>>

\* Lines 90-97.
DiagPut(r) ==
    /\ req[r].kind = "s3_diagnose" /\ req[r].pc = "put"
    /\ \E out \in S3Outcomes :
         /\ store' = IF out = S3Ok
                     THEN put_object(store, DiagKey, <<"bytes", "diag-ok\n">>, "text/plain",
                                     "public, max-age=60")
                     ELSE store
         /\ req' = [req EXCEPT ![r].pc = IF out = S3Ok THEN "sign" ELSE "done",
                      ![r].calls = Append(@, Call("put_object", DiagKey, out)),
                      ![r].resp = IF out = S3Ok THEN @ ELSE DiagExcept(out)]
    /\ UNCHANGED <<env, kurl, kres>>

\* Lines 98-108.
DiagSign(r) ==
    /\ req[r].kind = "s3_diagnose" /\ req[r].pc = "sign"
    /\ \E out \in S3Outcomes :
         req' = [req EXCEPT ![r].pc = "done",
                   ![r].calls = Append(@, Call("generate_presigned_url", DiagKey, out)),
                   ![r].resp =
                       IF out = S3Ok
                       THEN Returned([ok |-> TRUE, configured_region |-> AWS_REGION[1],
                                      bucket_head_result |-> "head_bucket response",
                                      presigned_get |->
                                          generate_presigned_url(AWS_BUCKET[1], DiagKey,
                                                                 DiagTtl)])
                       ELSE DiagExcept(out)]
    /\ UNCHANGED <<env, store, kurl, kres>>

(***************************************************************************)
(* GET / and GET /env-check (main.py 68-79)                                *)
(***************************************************************************)

root == [status |-> "ok", service |-> "qr-generator", docs |-> "/docs"]

\* A faulty variant of env_check: the credentials themselves are returned.
env_check_leaky(cfg) ==
    [key_set |-> cfg.AWS_KEY, secret_set |-> cfg.AWS_SECRET,
     AWS_REGION |-> cfg.AWS_REGION, AWS_BUCKET_NAME |-> cfg.AWS_BUCKET]

\* env_check() under the settings cfg.  The fields key_set and secret_set
\* are the response's "AWS_ACCESS_KEY set" and "AWS_SECRET_KEY set".
env_check(cfg) ==
    [key_set |-> Truthy(cfg.AWS_KEY), secret_set |-> Truthy(cfg.AWS_SECRET),
     AWS_REGION |-> cfg.AWS_REGION, AWS_BUCKET_NAME |-> cfg.AWS_BUCKET]

RootReceive(r) ==
    /\ CanReceive(r)
    /\ req' = [req EXCEPT ![r] = [Idle EXCEPT !.kind = "root", !.pc = "done",
                                              !.resp = Returned(root)]]
    /\ UNCHANGED <<env, store, kurl, kres>>

EnvCheckReceive(r) ==
    /\ CanReceive(r)
    /\ req' = [req EXCEPT ![r] = [Idle EXCEPT !.kind = "env_check", !.pc = "done",
                                              !.resp = Returned(env_check(load_config(env)))]]
    /\ UNCHANGED <<env, store, kurl, kres>>

(***************************************************************************)
(* The service: requests for generate-qr and s3-diagnose in flight         *)
(* together, every call of the S3 client a step of its own.                *)
(***************************************************************************)

Init ==
    /\ \E region \in {None, Some("eu-west-1")},
          bucket \in {None, Some(""), Some("my-bucket")} :
         env = [AWS_REGION |-> region, AWS_BUCKET_NAME |-> bucket,
                AWS_ACCESS_KEY |-> Some("AKIAEXAMPLE"), AWS_ACCESS_KEY_ID |-> None,
                AWS_SECRET_KEY |-> Some("s3cr3t"), AWS_SECRET_ACCESS_KEY |-> None]
    /\ store = <<>>
    /\ req = [r \in Reqs |-> Idle]
    /\ kurl = <<>>
    /\ kres = KeyPending

Next ==
    \E r \in Reqs :
        \/ \E in \in GenInputs : GenReceive(r, in.body, in.query)
        \/ GenValidate(r)
        \/ GenBuild(r)
        \/ GenPut(r)
        \/ GenSign(r)
        \/ DiagReceive(r)
        \/ DiagHead(r)
        \/ DiagPut(r)
        \/ DiagSign(r)

Spec == Init /\ [][Next]_vars

(***************************************************************************)
(* The two endpoints that read nothing but the configuration, under every  *)
(* environment the process can be started in.                              *)
(***************************************************************************)

CredValues == {None, Some(""), Some("AKIAEXAMPLE"), Some("s3cr3t")}

Envs ==
    { [AWS_REGION |-> region, AWS_BUCKET_NAME |-> bucket,
       AWS_ACCESS_KEY |-> k1, AWS_ACCESS_KEY_ID |-> k2,
       AWS_SECRET_KEY |-> s1, AWS_SECRET_ACCESS_KEY |-> s2] :
         region \in {None, Some("eu-west-1")},
         bucket \in {None, Some(""), Some("my-bucket")},
         k1 \in CredValues, k2 \in CredValues, s1 \in CredValues, s2 \in CredValues }

EnvInit ==
    /\ env \in Envs
    /\ store = <<>>
    /\ req = [r \in Reqs |-> Idle]
    /\ kurl = <<>>
    /\ kres = KeyPending

EnvNext == \E r \in Reqs : RootReceive(r) \/ EnvCheckReceive(r)

EnvSpec == EnvInit /\ [][EnvNext]_vars

(***************************************************************************)
(* Stand-alone calls of safe_key_from_url on every short text.             *)
(***************************************************************************)

MaxUrlLen == 3

KeyAlphabet == {"/", ":", "a", ";", "?", ".", "\\"}

\* Some longer texts: the URLs of the requests above (but the longest),
\* "https://example.com/page", "HTTP://a/b;p/c;q" (the scheme is lowered,
\* the parameters split off), " http://a//b/#c/d" (the space is stripped,
\* the fragment dropped) and "http://a.com/../../etc".
KeyExtras ==
    {UrlText[n] : n \in UrlNames \ {"LONG"}} \cup
    { <<"h", "t", "t", "p", "s", ":", "/", "/", "e", "x", "a", "m", "p", "l", "e", ".",
        "c", "o", "m", "/", "p", "a", "g", "e">>,
      <<"H", "T", "T", "P", ":", "/", "/", "a", "/", "b", ";", "p", "/", "c", ";", "q">>,
      <<" ", "h", "t", "t", "p", ":", "/", "/", "a", "/", "/", "b", "/", "#", "c", "/", "d">>,
      <<"h", "t", "t", "p", ":", "/", "/", "a", ".", "c", "o", "m", "/", ".", ".", "/",
        ".", ".", "/", "e", "t", "c">> }

KeyTexts == UNION {[1..n -> KeyAlphabet] : n \in 0..MaxUrlLen} \cup KeyExtras

KeyInit ==
    /\ kurl \in KeyTexts
    /\ kres = KeyPending
    /\ env = <<>>
    /\ store = <<>>
    /\ req = <<>>

DeriveKey ==
    /\ kres = KeyPending
    /\ kres' = safe_key_from_url(kurl)
    /\ UNCHANGED <<env, store, req, kurl>>

KeyNext == DeriveKey

KeySpec == KeyInit /\ [][KeyNext]_vars

(***************************************************************************)
(* Properties of generate-qr and s3-diagnose, checked under Spec.          *)
(***************************************************************************)

\* Request r is a generate-qr request whose three checks have run.
GenChecked(r) == req[r].kind = "generate_qr" /\ req[r].pc \notin {"idle", "validate"}

\* The effective URL fu is absent, empty, or does not begin with http://
\* or https://.
InvalidUrl(fu) ==
    \/ fu = None
    \/ UrlText[fu[1]] = <<>>
    \/ /\ Upto(UrlText[fu[1]], 7) # HttpPrefix
       /\ Upto(UrlText[fu[1]], 8) # HttpsPrefix

\* No bucket name is configured: the variable is unset or set to "".
NoBucket == env.AWS_BUCKET_NAME = None \/ env.AWS_BUCKET_NAME = Some("")

\* Request r is a generate-qr request that passed the three checks.
GenValidated(r) ==
    /\ GenChecked(r)
    /\ ~InvalidUrl(req[r].final_url)
    /\ ~NoBucket

\* The messages of the failures the S3 client can raise.
FailureOf(call) == call.err.msg

\* Request r has answered 500 from its own code, with detail d.
Handled500(r, d) ==
    /\ req[r].pc = "done"
    /\ req[r].resp.status = 500
    /\ req[r].resp.uncaught = ""
    /\ req[r].resp.detail = d

\* C1: a generate-qr request whose effective URL is absent, empty or not an
\* http(s) URL is answered 400 by the handler, has made no call of the
\* storage client, and no step of it changes the store, whether or not a
\* bucket is configured.
C1_InvalidUrlRejected ==
    /\ [](\A r \in Reqs :
            GenChecked(r) /\ InvalidUrl(req[r].final_url)
            => /\ req[r].pc = "done"
               /\ req[r].resp.status = 400
               /\ req[r].resp.uncaught = ""
               /\ req[r].calls = <<>>)
    /\ [][\A r \in Reqs :
            (/\ req'[r] # req[r]
             /\ req'[r].kind = "generate_qr"
             /\ req'[r].pc # "validate"
             /\ InvalidUrl(req'[r].final_url))
            => store' = store]_vars

\* A request for an ftp URL was answered 400 with no bucket configured.
C1_Witness ==
    \E r \in Reqs :
        /\ GenChecked(r)
        /\ req[r].final_url = Some("FTP")
        /\ req[r].resp.status = 400
        /\ req[r].calls = <<>>
        /\ NoBucket

\* C2, as stated: when the body and the query both supply a url (an empty
\* string included), the handler's effective URL is the body's.
C2_BodyWinsAlways ==
    \A r \in Reqs :
        (/\ GenChecked(r)
         /\ req[r].body # None
         /\ req[r].body[1].url # None
         /\ req[r].query # None)
        => req[r].final_url = req[r].body[1].url

\* C2, amended: when the body supplies a non-empty url and the query a url
\* too, the body's is the effective URL, every storage call is for the key
\* derived from it, and the response's key and source_url and the stored
\* image are those of the body's URL.
C2_BodyWinsWhenNonEmpty ==
    \A r \in Reqs :
        (/\ GenChecked(r)
         /\ req[r].body # None
         /\ req[r].body[1].url # None
         /\ UrlText[req[r].body[1].url[1]] # <<>>
         /\ req[r].query # None)
        => LET bu == req[r].body[1].url[1] IN
           /\ req[r].final_url = Some(bu)
           /\ \A i \in 1..Len(req[r].calls) :
                /\ req[r].calls[i].key = KeyTable[bu].key
                /\ (req[r].calls[i].op = "put_object" /\ req[r].calls[i].ok
                    => /\ KeyTable[bu].key \in DOMAIN store
                       /\ store[KeyTable[bu].key].Body = qr_png(bu).body)
           /\ (req[r].resp.status = 200
               => /\ req[r].resp.body.key = KeyTable[bu].key
                  /\ req[r].resp.body.source_url = bu)

\* A request with url A in the body and url B in the query succeeded.
C2_Witness ==
    \E r \in Reqs :
        /\ GenChecked(r)
        /\ req[r].body = Some(QRRequest(Some("A")))
        /\ req[r].query = Some("B")
        /\ req[r].resp.status = 200
        /\ req[r].resp.body.source_url = "A"

\* C3, as stated: once the URL and the bucket checks have passed, a failure
\* of the key derivation or of the image encoding is caught in the handler
\* and answered 500 with the failure's message; none leaves the handler.
C3_BuildFailureHandled ==
    \A r \in Reqs :
        (/\ GenValidated(r)
         /\ req[r].pc = "done"
         /\ req[r].calls = <<>>)
        => /\ req[r].resp.status = 500
           /\ req[r].resp.uncaught = ""
           /\ req[r].resp.detail # <<"Internal Server Error">>

\* C4, as stated: every failure of one of the three storage calls of
\* s3-diagnose, of whatever class, is answered 500 by the handler with the
\* failure's message.
C4_DiagFailureHandled ==
    \A r \in Reqs :
        (/\ req[r].kind = "s3_diagnose"
         /\ req[r].pc = "done"
         /\ req[r].calls # <<>>
         /\ ~req[r].calls[Len(req[r].calls)].ok)
        => Handled500(r, <<"S3 diagnose error: ",
                           FailureOf(req[r].calls[Len(req[r].calls)])>>)

\* The objects under the prefix qr_codes/.
QrObjects == {k \in DOMAIN store : Upto(k, Len(KeyPrefix)) = KeyPrefix}

\* The generate-qr requests answered ok.
GenSucceeded == {r \in Reqs : req[r].kind = "generate_qr" /\ req[r].resp.status = 200}

\* The generate-qr requests whose put has succeeded.
GenStored ==
    {r \in Reqs : /\ req[r].kind = "generate_qr"
                  /\ req[r].calls # <<>>
                  /\ req[r].calls[1].ok}

\* No request is between its arrival and its response.
AtRest == \A r \in Reqs : req[r].pc \in {"idle", "done"}

\* Successful requests for one URL name one key, the derived one.
SameUrlSameKey ==
    \A r \in GenSucceeded :
        /\ req[r].resp.body.key = KeyTable[req[r].final_url[1]].key
        /\ \A q \in GenSucceeded :
             UrlText[req[q].final_url[1]] = UrlText[req[r].final_url[1]]
             => req[q].resp.body.key = req[r].resp.body.key

\* C5, as stated: successful requests for one URL return one key, and, with
\* no request under way, the objects under qr_codes/ are no more than the
\* distinct URLs successfully generated.
C5_ObjectsWithinSucceeded ==
    /\ SameUrlSameKey
    /\ AtRest =>
         Cardinality(QrObjects) <= Cardinality({req[r].final_url : r \in GenSucceeded})

\* C5, amended: successful requests for one URL return one key, and the
\* objects under qr_codes/ are never more than the distinct URLs whose put
\* has succeeded (a repeated request replaces the object).
C5_ObjectsWithinStored ==
    /\ SameUrlSameKey
    /\ Cardinality(QrObjects) <= Cardinality({req[r].final_url : r \in GenStored})
    /\ \A r \in GenStored : KeyTable[req[r].final_url[1]].key \in QrObjects

\* Two requests for one URL both succeeded and one object is stored.
C5_Witness ==
    \E r, q \in GenSucceeded :
        /\ r # q
        /\ req[r].final_url = req[q].final_url
        /\ Cardinality(QrObjects) = 1

\* C6: with no bucket name configured, a generate-qr request with a valid
\* URL and every s3-diagnose request is answered 500 "AWS_BUCKET_NAME is
\* not set" by the handler, with no call of the storage client.
C6_NoBucketNoCall ==
    NoBucket =>
        \A r \in Reqs :
            /\ (GenChecked(r) /\ ~InvalidUrl(req[r].final_url)
                => /\ Handled500(r, <<"AWS_BUCKET_NAME is not set">>)
                   /\ req[r].calls = <<>>)
            /\ (req[r].kind = "s3_diagnose"
                => /\ Handled500(r, <<"AWS_BUCKET_NAME is not set">>)
                   /\ req[r].calls = <<>>)

\* With the bucket name set to "", a generate-qr request with a valid URL
\* and an s3-diagnose request were both answered 500.
C6_Witness ==
    /\ env.AWS_BUCKET_NAME = Some("")
    /\ \E r, q \in Reqs :
         /\ GenChecked(r) /\ ~InvalidUrl(req[r].final_url)
         /\ req[r].resp.status = 500
         /\ req[q].kind = "s3_diagnose"
         /\ req[q].resp.status = 500
    /\ store = <<>>

\* C9: a generate-qr request calls put and then sign, each at most once and
\* for the one derived key; sign is called only after put succeeded; ok is
\* answered only after both succeeded; when put fails there is no sign, the
\* store is left as it was, and the handler answers 500 with the failure's
\* message.
C9_StageOrder ==
    /\ [](\A r \in Reqs :
            req[r].kind = "generate_qr" =>
              LET c == req[r].calls IN
              /\ Len(c) <= 2
              /\ (Len(c) >= 1
                  => /\ GenValidated(r)
                     /\ c[1].op = "put_object"
                     /\ c[1].key = KeyTable[req[r].final_url[1]].key)
              /\ (Len(c) = 2
                  => /\ c[1].ok
                     /\ c[2].op = "generate_presigned_url"
                     /\ c[2].key = c[1].key)
              /\ (req[r].resp.status = 200
                  => /\ Len(c) = 2 /\ c[1].ok /\ c[2].ok
                     /\ req[r].resp.body.ok
                     /\ req[r].resp.body.key = c[1].key)
              /\ (Len(c) >= 1 /\ ~c[1].ok
                  => /\ Len(c) = 1
                     /\ req[r].pc = "done"
                     /\ req[r].resp.status = 500
                     /\ req[r].resp.uncaught = ""
                     /\ req[r].resp.detail[Len(req[r].resp.detail)] = FailureOf(c[1])))
    /\ [][\A r \in Reqs :
            (/\ req'[r].kind = "generate_qr"
             /\ Len(req'[r].calls) > Len(req[r].calls)
             /\ ~req'[r].calls[Len(req'[r].calls)].ok)
            => store' = store]_vars

\* One request was answered ok after its two calls, and the put of another
\* failed.
C9_Witness ==
    \E r, q \in Reqs :
        /\ req[r].kind = "generate_qr" /\ req[r].resp.status = 200
        /\ Len(req[r].calls) = 2
        /\ req[q].kind = "generate_qr" /\ req[q].resp.status = 500
        /\ Len(req[q].calls) = 1
        /\ store # <<>>

\* C10: under every interleaving, each stored object is the diagnostic one
\* or lies at the key derived from the effective URL of a validated
\* generate-qr request; the object at a request's key is the image of that
\* request's URL; a step changes the store only at the key of the request
\* taking it, by a put; and a sign step leaves the store as it is.
C10_OwnKeyOnly ==
    /\ [](/\ \A k \in DOMAIN store :
               \/ k = DiagKey /\ \E r \in Reqs : req[r].kind = "s3_diagnose"
               \/ \E r \in Reqs : GenValidated(r) /\ k = KeyTable[req[r].final_url[1]].key
          /\ \A r \in Reqs :
               (GenValidated(r) /\ KeyTable[req[r].final_url[1]].key \in DOMAIN store)
               => store[KeyTable[req[r].final_url[1]].key].Body
                    = qr_png(req[r].final_url[1]).body)
    /\ [][/\ store' # store
             => \E r \in Reqs :
                  /\ Len(req'[r].calls) = Len(req[r].calls) + 1
                  /\ LET c == req'[r].calls[Len(req'[r].calls)] IN
                     /\ c.op = "put_object" /\ c.ok
                     /\ c.key = IF req[r].kind = "s3_diagnose" THEN DiagKey
                                ELSE KeyTable[req[r].final_url[1]].key
                     /\ DOMAIN store' = DOMAIN store \cup {c.key}
                     /\ \A k \in DOMAIN store : k # c.key => store'[k] = store[k]
          /\ \A r \in Reqs :
               (/\ Len(req'[r].calls) = Len(req[r].calls) + 1
                /\ req'[r].calls[Len(req'[r].calls)].op = "generate_presigned_url")
               => store' = store]_vars

\* Requests for https://a.com and for https://a.com/ and an s3-diagnose
\* have all written, in some interleaving, and there are three objects.
C10_Witness ==
    /\ Cardinality(DOMAIN store) >= 2
    /\ DiagKey \in DOMAIN store
    /\ \E r, q \in Reqs :
         /\ req[r].kind = "generate_qr" /\ req[r].pc = "sign"
         /\ req[q].kind = "s3_diagnose" /\ req[q].pc = "sign"

(***************************************************************************)
(* Properties of env-check, checked under EnvSpec.                         *)
(***************************************************************************)

\* A credential variable that is set to a value.
Present(o) == o # None /\ o # Some("")

\* Two environments that differ at most in the values of credentials that
\* are present in both: same region, same bucket, same presence.
SameButSecrets(e1, e2) ==
    /\ e1.AWS_REGION = e2.AWS_REGION
    /\ e1.AWS_BUCKET_NAME = e2.AWS_BUCKET_NAME
    /\ (Present(e1.AWS_ACCESS_KEY) \/ Present(e1.AWS_ACCESS_KEY_ID))
         <=> (Present(e2.AWS_ACCESS_KEY) \/ Present(e2.AWS_ACCESS_KEY_ID))
    /\ (Present(e1.AWS_SECRET_KEY) \/ Present(e1.AWS_SECRET_ACCESS_KEY))
         <=> (Present(e2.AWS_SECRET_KEY) \/ Present(e2.AWS_SECRET_ACCESS_KEY))

\* C7: the response of env-check is the one any environment with the same
\* region, bucket and credential presence would give, whatever the values
\* of the credentials, and its two credential fields are booleans.
C7_EnvCheckHidesSecrets ==
    \A r \in Reqs :
        (req[r].kind = "env_check" /\ req[r].pc = "done")
        => /\ req[r].resp.status = 200
           /\ \A e2 \in Envs :
                SameButSecrets(env, e2) => env_check(load_config(e2)) = req[r].resp.body
           /\ req[r].resp.body.key_set \in BOOLEAN
           /\ req[r].resp.body.secret_set \in BOOLEAN

\* env-check has answered with the key under its second name and the
\* secret not set.
C7_Witness ==
    \E r \in Reqs :
        /\ req[r].kind = "env_check" /\ req[r].pc = "done"
        /\ env.AWS_ACCESS_KEY = None
        /\ env.AWS_ACCESS_KEY_ID = Some("s3cr3t")
        /\ req[r].resp.body.key_set = TRUE
        /\ req[r].resp.body.secret_set = FALSE

(***************************************************************************)
(* Properties of safe_key_from_url, checked under KeySpec.                 *)
(***************************************************************************)

\* The number of places of s that hold c.
CountOf(s, c) == Cardinality({i \in 1..Len(s) : s[i] = c})

\* The slug of a key: what lies between the prefix and "_<digest>.png".
SlugOf(key) == SubSeq(key, Len(KeyPrefix) + 1, Len(key) - Len(KeySuffix) - DigestLen - 1)

\* The sixteen hex digits.
C8_HexDigits == {HexChars[i] : i \in 1..16}

\* C8: a derived key is "qr_codes/", a slug that is not empty and holds no
\* "/", "_", sixteen hex digits and ".png"; the "/" of the prefix is its
\* only one, so that the key has two components and neither is "." or "..".
C8_KeyShape ==
    kres.raises = "" =>
        LET key == kres.key
            n == Len(kres.key)
        IN /\ n >= Len(KeyPrefix) + 1 + 1 + DigestLen + Len(KeySuffix)
           /\ Upto(key, Len(KeyPrefix)) = KeyPrefix
           /\ CountOf(key, "/") = 1
           /\ SlugOf(key) # <<>>
           /\ CountOf(SlugOf(key), "/") = 0
           /\ From(key, Len(KeyPrefix) + 1) \notin {<<".">>, <<".", ".">>}
           /\ key[n - Len(KeySuffix) - DigestLen] = "_"
           /\ \A i \in (n - Len(KeySuffix) - DigestLen + 1)..(n - Len(KeySuffix)) :
                key[i] \in C8_HexDigits
           /\ SubSeq(key, n - Len(KeySuffix) + 1, n) = KeySuffix

\* A key was derived from a text with "/" inside its host and path: the
\* slug holds the "_" that stands for it.
C8_Witness ==
    /\ kres.raises = ""
    /\ CountOf(kurl, "/") >= 3
    /\ CountOf(SlugOf(kres.key), "_") >= 1

=============================================================================
